---- MODULE Spec2Model ----
(***************************************************************************)
(* Model of the podcast programs: the paginate-and-persist program         *)
(* (src/main.go) and the two earlier variants kept in                      *)
(* src/unnamed/part_000 (single-resource fetch, lines 1-118, and           *)
(* token-print-only, lines 120-195).                                       *)
(*                                                                         *)
(* The upstream catalog API and the DynamoDB endpoint are the environment. *)
(* A page body is the JSON document a fetch returns, seen through the      *)
(* fields the decode target reads: "next" is a JSON string, JSON null or   *)
(* missing; "items" is an array of episode objects, JSON null or missing;  *)
(* an episode object may lack its description; "total" is total_episodes,  *)
(* read on the first page.  An array lists no episode twice (a repeat      *)
(* comes only from pages that overlap).                                    *)
(***************************************************************************)
EXTENDS Integers, Sequences, FiniteSets, TLC

\* ---------------------------------------------------------------- bounds
MaxFetch == 3
MaxTotal == 3

\* ------------------------------------------------------- program constants
InitialURL == "https://api.spotify.com/v1/shows/4zqDMbg9WSpC5l81gJCfEc"

\* ------------------------------------------------------------ input domains
NextURLs == {"page2", "page3"}
Absent == "<absent>"
Null == "<null>"
RawNext == {Absent, Null, ""} \cup NextURLs

Episodes == {[Name |-> "A", Description |-> "d1"],
             [Name |-> "A", Description |-> "d2"]}

RECURSIVE SeqsUpTo(_, _)
SeqsUpTo(S, n) ==
    IF n = 0 THEN {<<>>}
    ELSE LET shorter == SeqsUpTo(S, n - 1)
         IN  shorter \cup {Append(s, e) : s \in {t \in shorter : Len(t) = n - 1}, e \in S}

PageItems == {s \in SeqsUpTo(Episodes, Cardinality(Episodes)) :
                \A j, k \in DOMAIN s : s[j] = s[k] => j = k}

\* An episode object without a "description" key, and the item arrays a body
\* may carry: the arrays of complete episodes and the array of that object.
Partial == [Name |-> "A", Description |-> Absent]
RawArrays == PageItems \cup {<<Partial>>}

\* A body: itemsKey says whether "items" is an array, JSON null or missing.
Bodies(totals) ==
    [next : RawNext, itemsKey : {"array"}, items : RawArrays, total : totals]
      \cup [next : RawNext, itemsKey : {"null", "absent"}, items : {<<>>}, total : totals]

FirstBodies == Bodies(0..MaxTotal)
LaterBodies == Bodies({0})

NoTable == [exists |-> FALSE, rows |-> {}]
Table(rows) == [exists |-> TRUE, rows |-> rows]
OldRow == [Name |-> "Z", Description |-> "old"]
StaleRow == [Name |-> "A", Description |-> "old"]
PriorTables == {NoTable, Table({}), Table({OldRow, StaleRow})}

Variants == {"token-print", "single-fetch", "persist"}

VARIABLES
    variant,     \* which of the three programs runs
    pc,          \* position of main
    i,           \* loop index of the collection loop
    url,         \* URL the next GetProgramData call fetches
    totalItem,   \* main.totalItem
    readItem,    \* main.readItem
    items,       \* main.items
    pin,         \* main.pin, the decode target of every later page
    putIdx,      \* position of PutItem's range loop (1-based)
    table,       \* table "Program" at the DynamoDB endpoint
    upstream,    \* the upstream: any body per fetch, or a fixed body per URL
    calls,       \* log of the external calls made so far
    fetched,     \* the item arrays of the page bodies fetched so far, joined
    fetchedLen,  \* sum of the lengths of those item arrays
    fetches,     \* number of GetProgramData calls made
    lastNext,    \* raw "next" of the last page body fetched
    table0,      \* table "Program" before the run
    fetchErr,    \* the token call or a data fetch has failed
    printed      \* a fatal message has been logged

vars == <<variant, pc, i, url, totalItem, readItem, items, pin, putIdx, table,
          upstream, calls, fetched, fetchedLen, fetches, lastNext, table0,
          fetchErr, printed>>

loopVars == <<i, url, totalItem, readItem, items, pin, fetched, fetchedLen,
              fetches, lastNext>>
sinkVars == <<putIdx, table>>

\* ------------------------------------------------------------ encoding/json
\* json.Unmarshal of a string field: a JSON string is stored; JSON null and a
\* missing key leave the field of the decode target as it was.
DecodeStringEmptyKeeps(old, raw) == IF raw \in {Absent, Null, ""} THEN old ELSE raw
DecodeString(old, raw) == IF raw \in {Absent, Null} THEN old ELSE raw

\* An episode object decoded into a zero Item: a missing description is "".
DecodeFresh(raw) ==
    [Name |-> raw.Name,
     Description |-> IF raw.Description = Absent THEN "" ELSE raw.Description]

\* The item array of a body as a zero decode target sees it.
ItemsOf(body) == [k \in DOMAIN body.items |-> DecodeFresh(body.items[k])]

\* An episode object decoded into element k of a slice whose backing array is
\* buf: a key that is present is stored; a missing description is "" when
\* the element is zeroed first or new, and the description the backing array
\* holds at k when it is decoded in place (which of the two depends on the
\* encoding/json of the build).
DecodeElement(buf, k, raw) ==
    IF raw.Description # Absent THEN {DecodeFresh(raw)}
    ELSE {DecodeFresh(raw)} \cup
         (IF k \in DOMAIN buf
          THEN {[Name |-> raw.Name, Description |-> buf[k].Description]}
          ELSE {})

\* A JSON array decoded into a slice with backing array buf: the outcomes.
DecodeArray(buf, raws) ==
    {s \in [DOMAIN raws -> UNION {DecodeElement(buf, k, raws[k]) : k \in DOMAIN raws}] :
       \A k \in DOMAIN raws : s[k] \in DecodeElement(buf, k, raws[k])}

\* json.Unmarshal(body, &pi): pi is the zero ProgramInfo when it is decoded.
UnmarshalProgramInfo(body) ==
    [TotalEpisodes |-> body.total,
     Episodes |-> [Items |-> ItemsOf(body), Next |-> DecodeString("", body.next)]]

\* json.Unmarshal(body, &pin): pin is the same variable on every later page.
\* A missing "items" key leaves pin.Items as it was, null makes it nil, an
\* empty array a new empty slice; a non-empty array is decoded into the
\* backing array of pin.Items, Items followed by Spare.  The set of outcomes.
UnmarshalProgramInfoNext(old, body) ==
    LET next == DecodeString(old.Next, body.next)
        buf == old.Items \o old.Spare
        n == Len(body.items)
    IN  CASE body.itemsKey = "absent" ->
               {[Items |-> old.Items, Spare |-> old.Spare, Next |-> next]}
          [] body.itemsKey = "null" \/ n = 0 ->
               {[Items |-> <<>>, Spare |-> <<>>, Next |-> next]}
          [] OTHER ->
               {[Items |-> s, Spare |-> SubSeq(buf, n + 1, Len(buf)), Next |-> next] :
                  s \in DecodeArray(buf, body.items)}

ZeroPin == [Items |-> <<>>, Spare |-> <<>>, Next |-> ""]

\* ------------------------------------------------------------------- inputs
ErrorKinds == {"transport", "status", "parse"}

URLs == {InitialURL} \cup NextURLs

\* In a chain the upstream is a fixed map from URL to page body.
ChainItems == {s \in PageItems : \A k \in DOMAIN s :
                 s[k].Description = (IF k = 1 THEN "d1" ELSE "d2")}
ChainNext == {Null, ""} \cup NextURLs
ChainPages == {u \in [URLs -> [next : ChainNext, itemsKey : {"array"}, items : ChainItems,
                            total : 0..MaxTotal]] :
                 \A p \in NextURLs : u[p].total = 0}
Chains == {[fixed |-> TRUE, page |-> u] : u \in ChainPages}
Free == [fixed |-> FALSE, page |-> CHOOSE u \in ChainPages : TRUE]

Responses(u) ==
    IF upstream.fixed
    THEN {upstream.page[u]}
    ELSE IF i = 0 THEN FirstBodies ELSE LaterBodies

\* One entry of the call log: arg is the number of items of the page a
\* GetProgramData call returned, the index of the item a PutItem call wrote.
Call(op, arg, ok) == [op |-> op, arg |-> arg, ok |-> ok]

InitCommon ==
    /\ variant \in Variants
    /\ pc = "config"
    /\ i = 0
    /\ url = InitialURL
    /\ totalItem = 0
    /\ readItem = 0
    /\ items = <<>>
    /\ pin = ZeroPin
    /\ putIdx = 1
    /\ table0 \in PriorTables
    /\ table = table0
    /\ calls = <<>>
    /\ fetched = <<>>
    /\ fetchedLen = 0
    /\ fetches = 0
    /\ lastNext = Absent
    /\ fetchErr = FALSE
    /\ printed = FALSE

Init == InitCommon /\ upstream = Free

ChainInit ==
    /\ InitCommon
    /\ upstream \in Chains
    /\ variant # "persist" => upstream = CHOOSE u \in Chains : TRUE

\* ------------------------------------------------------------- main: config
\* os.Open("config.json") and Decode succeed.
LoadConfig ==
    /\ pc = "config"
    /\ pc' = "token"
    /\ UNCHANGED <<variant, loopVars, sinkVars, upstream, calls, table0, fetchErr, printed>>

\* os.Open or Decode fails: log.Fatalf.
LoadConfigFails ==
    /\ pc = "config"
    /\ pc' = "fatal"
    /\ printed' = TRUE
    /\ UNCHANGED <<variant, loopVars, sinkVars, upstream, calls, table0, fetchErr>>

\* -------------------------------------------------------------- main: token
AfterToken(v) ==
    CASE v = "persist" -> "fetch"
      [] v = "single-fetch" -> "getdata"
      [] OTHER -> "print"

\* GetAccessToken (inlined in the token-print program) returns a token.
GetAccessTokenOK ==
    /\ pc = "token"
    /\ calls' = Append(calls, Call("GetAccessToken", 0, TRUE))
    /\ pc' = AfterToken(variant)
    /\ UNCHANGED <<variant, loopVars, sinkVars, upstream, table0, fetchErr, printed>>

\* Transport error, non-200 status or a body that does not decode: every one
\* ends in log.Fatalf, inside GetAccessToken or in main.
GetAccessTokenFails ==
    /\ pc = "token"
    /\ \E kind \in ErrorKinds :
         calls' = Append(calls, Call("GetAccessToken", 0, FALSE))
    /\ fetchErr' = TRUE
    /\ printed' = TRUE
    /\ pc' = "fatal"
    /\ UNCHANGED <<variant, loopVars, sinkVars, upstream, table0>>

\* token-print program: the three Printf lines, then main returns.
PrintToken ==
    /\ pc = "print"
    /\ pc' = "done"
    /\ UNCHANGED <<variant, loopVars, sinkVars, upstream, calls, table0, fetchErr, printed>>

\* ------------------------------------------- single-fetch program: GetData
\* GetData prints the body and returns nil; main returns.
GetDataOK ==
    /\ pc = "getdata"
    /\ calls' = Append(calls, Call("GetData", 0, TRUE))
    /\ pc' = "done"
    /\ UNCHANGED <<variant, loopVars, sinkVars, upstream, table0, fetchErr, printed>>

\* A non-200 status: log.Fatalf inside GetData.
GetDataStatus ==
    /\ pc = "getdata"
    /\ calls' = Append(calls, Call("GetData", 0, FALSE))
    /\ fetchErr' = TRUE
    /\ printed' = TRUE
    /\ pc' = "fatal"
    /\ UNCHANGED <<variant, loopVars, sinkVars, upstream, table0>>

\* A transport error: GetData returns err, main drops the return value and
\* returns normally.
GetDataTransport ==
    /\ pc = "getdata"
    /\ calls' = Append(calls, Call("GetData", 0, FALSE))
    /\ fetchErr' = TRUE
    /\ pc' = "done"
    /\ UNCHANGED <<variant, loopVars, sinkVars, upstream, table0, printed>>

\* ------------------------------------------------- main: the collection loop
\* readItem += len(page items)
AddReadAssign(read, new) == Len(new)
AddRead(read, new) == read + Len(new)

\* items = append(items, page items...)
AppendItemsFront(acc, new) == new \o acc
AppendItems(acc, new) == acc \o new

\* if next != "" { url = next } else { break }
HasNextNotNull(next) == next # Null
HasNext(next) == next # ""

\* if totalItem == readItem { break }, after the first-page / later-page branch
CountReachedLaterOnly(total, read) == i > 0 /\ total = read
CountReached(total, read) == total = read

\* What one iteration does with the decoded page: total is the total the
\* iteration leaves in totalItem, page the decoded Items, next the decoded Next.
Iterate(total, page, next) ==
    LET read == AddRead(readItem, page)
        goOn == HasNext(next) /\ ~CountReached(total, read)
    IN  /\ totalItem' = total
        /\ readItem' = read
        /\ items' = AppendItems(items, page)
        /\ url' = IF HasNext(next) THEN next ELSE url
        /\ i' = IF goOn THEN i + 1 ELSE i
        /\ pc' = IF goOn THEN "fetch" ELSE "delete"

Record(body) ==
    /\ calls' = Append(calls, Call("GetProgramData", Len(body.items), TRUE))
    /\ fetched' = fetched \o ItemsOf(body)
    /\ fetchedLen' = fetchedLen + Len(body.items)
    /\ fetches' = fetches + 1
    /\ lastNext' = body.next

\* Iteration 0: the body is decoded into pi.
FetchFirst ==
    /\ pc = "fetch"
    /\ i = 0
    /\ fetches < MaxFetch
    /\ \E body \in Responses(url) :
         LET pi == UnmarshalProgramInfo(body)
         IN  /\ Iterate(pi.TotalEpisodes, pi.Episodes.Items, pi.Episodes.Next)
             /\ Record(body)
    /\ UNCHANGED <<variant, pin, sinkVars, upstream, table0, fetchErr, printed>>

\* Iteration i > 0: the body is decoded into pin.
FetchLater ==
    /\ pc = "fetch"
    /\ i > 0
    /\ fetches < MaxFetch
    /\ \E body \in Responses(url) :
         \E decoded \in UnmarshalProgramInfoNext(pin, body) :
             /\ pin' = decoded
             /\ Iterate(totalItem, decoded.Items, decoded.Next)
             /\ Record(body)
    /\ UNCHANGED <<variant, sinkVars, upstream, table0, fetchErr, printed>>

\* GetProgramData returns a transport error (log.Fatal in main), meets a
\* non-200 status (log.Fatalf inside), or the body does not decode (log.Fatal).
FetchFailsAndGoesOn ==
    /\ pc = "fetch"
    /\ fetches < MaxFetch
    /\ \E kind \in ErrorKinds :
         calls' = Append(calls, Call("GetProgramData", 0, FALSE))
    /\ fetches' = fetches + 1
    /\ fetchErr' = TRUE
    /\ printed' = TRUE
    /\ pc' = "delete"
    /\ UNCHANGED <<variant, i, url, totalItem, readItem, items, pin, fetched,
                   fetchedLen, lastNext, sinkVars, upstream, table0>>

FetchFails ==
    /\ pc = "fetch"
    /\ fetches < MaxFetch
    /\ \E kind \in ErrorKinds :
         calls' = Append(calls, Call("GetProgramData", 0, FALSE))
    /\ fetches' = fetches + 1
    /\ fetchErr' = TRUE
    /\ printed' = TRUE
    /\ pc' = "fatal"
    /\ UNCHANGED <<variant, i, url, totalItem, readItem, items, pin, fetched,
                   fetchedLen, lastNext, sinkVars, upstream, table0>>

\* ------------------------------------------------------------ the table sink
\* DeleteTable: DescribeTable answers without error only for a table that
\* exists, and then DeleteTable is called and succeeds.
DeleteTableDrops ==
    /\ pc = "delete"
    /\ table.exists
    /\ table' = NoTable
    /\ calls' = Append(calls, Call("DeleteTable", 0, TRUE))
    /\ pc' = "create"
    /\ UNCHANGED <<variant, loopVars, putIdx, upstream, table0, fetchErr, printed>>

\* DescribeTable returns an error (no such table, or any other failure): the
\* if err == nil block is skipped and DeleteTable returns nil.
DeleteTableSkips ==
    /\ pc = "delete"
    /\ calls' = Append(calls, Call("DeleteTable", 0, TRUE))
    /\ pc' = "create"
    /\ UNCHANGED <<variant, loopVars, sinkVars, upstream, table0, fetchErr, printed>>

\* session.NewSession or svc.DeleteTable returns an error: log.Fatal in main.
DeleteTableFailsAndGoesOn ==
    /\ pc = "delete"
    /\ calls' = Append(calls, Call("DeleteTable", 0, FALSE))
    /\ printed' = TRUE
    /\ pc' = "create"
    /\ UNCHANGED <<variant, loopVars, sinkVars, upstream, table0, fetchErr>>

DeleteTableFails ==
    /\ pc = "delete"
    /\ calls' = Append(calls, Call("DeleteTable", 0, FALSE))
    /\ printed' = TRUE
    /\ pc' = "fatal"
    /\ UNCHANGED <<variant, loopVars, sinkVars, upstream, table0, fetchErr>>

\* svc.CreateTable succeeds only when no table "Program" exists.
CreateTableOK ==
    /\ pc = "create"
    /\ ~table.exists
    /\ table' = Table({})
    /\ putIdx' = 1
    /\ calls' = Append(calls, Call("CreateTable", 0, TRUE))
    /\ pc' = "put"
    /\ UNCHANGED <<variant, loopVars, upstream, table0, fetchErr, printed>>

\* The table exists (ResourceInUseException) or the call fails otherwise.
CreateTableFails ==
    /\ pc = "create"
    /\ calls' = Append(calls, Call("CreateTable", 0, FALSE))
    /\ printed' = TRUE
    /\ pc' = "fatal"
    /\ UNCHANGED <<variant, loopVars, sinkVars, upstream, table0, fetchErr>>

\* svc.PutItem on a table whose hash key is Name: the row replaces any row
\* with the same Name.
PutRowKeepFirst(rows, item) ==
    IF \E r \in rows : r.Name = item.Name THEN rows ELSE rows \cup {item}
PutRow(rows, item) ==
    {r \in rows : r.Name # item.Name} \cup
        {[Name |-> item.Name, Description |-> item.Description]}

\* One pass of PutItem's range loop.
PutItemOne ==
    /\ pc = "put"
    /\ putIdx <= Len(items)
    /\ table.exists
    /\ table' = Table(PutRow(table.rows, items[putIdx]))
    /\ calls' = Append(calls, Call("PutItem", putIdx, TRUE))
    /\ putIdx' = putIdx + 1
    /\ UNCHANGED <<variant, pc, loopVars, upstream, table0, fetchErr, printed>>

\* svc.PutItem returns an error: PutItem returns it, log.Fatal in main.
PutItemFails ==
    /\ pc = "put"
    /\ putIdx <= Len(items)
    /\ calls' = Append(calls, Call("PutItem", putIdx, FALSE))
    /\ printed' = TRUE
    /\ pc' = "fatal"
    /\ UNCHANGED <<variant, loopVars, sinkVars, upstream, table0, fetchErr>>

\* session.NewSession in PutItem returns an error, before the range loop:
\* PutItem returns it, log.Fatal in main.  No svc.PutItem call is made.
PutItemSessionFails ==
    /\ pc = "put"
    /\ putIdx = 1
    /\ printed' = TRUE
    /\ pc' = "fatal"
    /\ UNCHANGED <<variant, loopVars, sinkVars, upstream, calls, table0, fetchErr>>

\* The range loop is over: PutItem returns nil and main returns.
PutItemReturns ==
    /\ pc = "put"
    /\ putIdx > Len(items)
    /\ pc' = "done"
    /\ UNCHANGED <<variant, loopVars, sinkVars, upstream, calls, table0, fetchErr, printed>>

Next ==
    \/ LoadConfig
    \/ LoadConfigFails
    \/ GetAccessTokenOK
    \/ GetAccessTokenFails
    \/ PrintToken
    \/ GetDataOK
    \/ GetDataStatus
    \/ GetDataTransport
    \/ FetchFirst
    \/ FetchLater
    \/ FetchFails
    \/ DeleteTableDrops
    \/ DeleteTableSkips
    \/ DeleteTableFails
    \/ CreateTableOK
    \/ CreateTableFails
    \/ PutItemOne
    \/ PutItemFails
    \/ PutItemSessionFails
    \/ PutItemReturns

Spec == Init /\ [][Next]_vars

\* main is one sequential thread: it takes its next step whenever it has one.
ChainSpec == ChainInit /\ [][Next]_vars /\ WF_vars(Next)

\* ------------------------------------------------------- derived quantities
AfterLoop == {"delete", "create", "put", "done"}

FetchCalls == {k \in DOMAIN calls : calls[k].op = "GetProgramData"}

\* The first page was fetched and decoded, and carried n items.
FirstPageHad(n) ==
    /\ Len(calls) >= 2
    /\ calls[2].op = "GetProgramData"
    /\ calls[2].ok
    /\ calls[2].arg = n

\* Position (1-based) in the next-link chain from u of the first page whose
\* next link is the empty string, following URL links only; 0 when there is
\* none within n pages.
RECURSIVE ChainPos(_, _, _)
ChainPos(page, u, n) ==
    IF n = 0 THEN 0
    ELSE IF page[u].next = "" THEN 1
    ELSE IF page[u].next \in URLs
         THEN LET rest == ChainPos(page, page[u].next, n - 1)
              IN  IF rest = 0 THEN 0 ELSE rest + 1
         ELSE 0

ChainK ==
    IF upstream.fixed
    THEN ChainPos(upstream.page, InitialURL, Cardinality(URLs))
    ELSE 0

\* Number of items on the first n pages of the chain from u.
RECURSIVE ChainCount(_, _, _)
ChainCount(page, u, n) ==
    IF n = 0 THEN 0
    ELSE Len(page[u].items) +
         (IF n = 1 THEN 0 ELSE ChainCount(page, page[u].next, n - 1))

\* Every page of the upstream links on to another page: the chain never
\* produces an empty, null or missing next link.
ChainEndless ==
    /\ upstream.fixed
    /\ \A u \in URLs : upstream.page[u].next \in NextURLs

\* The upstream total is accurate: it is the number of items of the chain.
AccurateTotal ==
    /\ ChainK > 0
    /\ upstream.page[InitialURL].total = ChainCount(upstream.page, InitialURL, ChainK)

\* The rows a table keyed by Name holds after the items are written in order.
RowsOf(list) ==
    {list[k] : k \in {j \in DOMAIN list :
                        \A m \in DOMAIN list : m > j => list[m].Name # list[j].Name}}

\* ---------------------------------------------------------------- claims

\* C1: when the first page carries as many items as the total it reports,
\* the loop ends after that one fetch, with or without a next link: the run
\* is past the loop and no second GetProgramData call is ever made.
C1_FirstPageComplete ==
    (variant = "persist" /\ FirstPageHad(totalItem)) =>
        (fetches = 1 /\ pc \in AfterLoop \cup {"fatal"})

C1_Witness ==
    /\ FirstPageHad(totalItem)
    /\ totalItem > 0
    /\ lastNext \in NextURLs
    /\ url = lastNext
    /\ pc = "done"

\* C2: the item list is the concatenation, in fetch order and array order,
\* of the item arrays of the pages fetched; nothing is dropped, reordered or
\* deduplicated, and this is the list the sink writes from.
C2_ItemsAreConcatenation == items = fetched

\* C3: the running count is the sum of the item-array lengths of the pages
\* fetched and the length of the accumulated list; when the pages of a finite
\* chain add up to the total the first page reports, the list handed on has
\* that length.
C3_RunningCount ==
    /\ readItem = fetchedLen
    /\ readItem = Len(items)
    /\ (AccurateTotal /\ pc \in AfterLoop) => Len(items) = totalItem

\* C4: a page whose next link is the empty string is the last page fetched:
\* the run is past the loop, no fetch was attempted after it, and no fetch
\* error was raised, also when the count is short of the total.
C4_EmptyNextStops ==
    (variant = "persist" /\ fetches >= 1 /\ lastNext = "") =>
        (pc # "fetch" /\ ~fetchErr)

C4_Witness ==
    /\ lastNext = ""
    /\ fetches >= 2
    /\ readItem < totalItem
    /\ pc = "done"
    /\ Len(items) > 0

\* C5: a failed page fetch is the last external call of the run: the run is
\* aborted, no table operation is in the log and the table is as it was.
C5_FetchFailureAborts ==
    \A k \in FetchCalls :
        ~calls[k].ok => (k = Len(calls) /\ pc = "fatal" /\ printed /\ table = table0)

C5_Witness ==
    /\ Len(calls) = 4
    /\ calls[4].op = "GetProgramData"
    /\ ~calls[4].ok
    /\ Len(items) > 0
    /\ table0.exists
    /\ table0.rows # {}

\* C6: after a run whose sink calls all succeeded the table holds exactly the
\* rows the collected list determines, whatever the table was before.
C6_TableReplaced ==
    (variant = "persist" /\ pc = "done") => table = Table(RowsOf(items))

C6_Witness ==
    /\ pc = "done"
    /\ table0.exists
    /\ OldRow \in table0.rows
    /\ Len(items) >= 2
    /\ items[Len(items)].Description = "d1"
    /\ \E k \in DOMAIN items : items[k].Description = "d2"

\* C7: on a later page a next link that is missing or null ends the loop
\* like an empty string: no further fetch follows that page.
C7_AbsentNextStops ==
    (variant = "persist" /\ i > 0 /\ fetches >= 2 /\ ~fetchErr
        /\ lastNext \in {Absent, Null}) => pc # "fetch"

\* C8: the external calls of a run come in one order: the token call once
\* and first, then page fetches, then DeleteTable, CreateTable and the
\* PutItem calls in item order, and only the last call may have failed.
Follows(op) ==
    CASE op = "GetProgramData" -> {"GetAccessToken", "GetProgramData"}
      [] op = "DeleteTable" -> {"GetProgramData"}
      [] op = "CreateTable" -> {"DeleteTable"}
      [] op = "PutItem" -> {"CreateTable", "PutItem"}
      [] OTHER -> {}

C8_CallOrder ==
    variant = "persist" =>
        /\ calls # <<>> => calls[1].op = "GetAccessToken"
        /\ \A k \in DOMAIN calls : k > 1 =>
             /\ calls[k - 1].ok
             /\ calls[k - 1].op \in Follows(calls[k].op)
        /\ \A k \in DOMAIN calls : calls[k].op = "PutItem" =>
             calls[k].arg = Cardinality({j \in 1..k : calls[j].op = "PutItem"})
        /\ pc \in {"fetch"} \cup AfterLoop => calls # <<>>

C8_Witness ==
    /\ variant = "persist"
    /\ pc = "done"
    /\ Cardinality(FetchCalls) >= 2
    /\ Len(items) >= 2
    /\ table0.exists

\* C9: in every variant a failed token call or data fetch aborts the run
\* with a printed message.
C9_EveryErrorAborts == fetchErr => (pc = "fatal" /\ printed)

\* C10: when the next-link chain from the initial URL reaches an empty-string
\* next link at its K-th page, the loop makes at most K fetches and ends; the
\* loop is left only on an empty next link or on the count equalling the
\* total, so a count that has passed the total does not end it and the loop
\* goes on fetching for as long as every page links on.
C10_Termination ==
    /\ [](ChainK > 0 => fetches <= ChainK)
    /\ []((variant = "persist" /\ ChainEndless /\ readItem > totalItem /\ ~fetchErr)
            => pc = "fetch")
    /\ ((ChainK > 0 /\ pc = "fetch") ~> (pc # "fetch"))
    /\ [][(pc = "fetch" /\ pc' = "delete") =>
            \/ (IF i = 0 THEN DecodeString("", lastNext') ELSE pin'.Next) = ""
            \/ readItem' = totalItem']_vars

C10_Witness ==
    /\ ChainK >= 2
    /\ fetches = ChainK
    /\ pc = "delete"
    /\ readItem > totalItem
    /\ totalItem > 0

====
